---- MODULE Spec2Model ----
(***************************************************************************)
(* Model of the payroll record keeper (server.js, kept as                  *)
(* src/unnamed/part_000): one JSON document on disk, three mutating        *)
(* routes behind authenticateAdmin, and the JavaScript coercions the       *)
(* handlers apply to the request body.                                     *)
(*                                                                         *)
(* JavaScript values are tagged records of one shape, [t, n, s]:           *)
(*   t = "undefined" | "null" | "num" | "nan" | "str"                      *)
(*   n = the number, held exactly in thousandths (5000 is 5000000)         *)
(*   s = the string, a sequence of one-character strings; a stretch of     *)
(*       text that no handler looks into ("Bearer", a name, a date) is     *)
(*       held as one element                                               *)
(* Request fields are typed as the interface types them: text fields are   *)
(* strings, numeric fields are numbers or strings, any field may be        *)
(* absent.                                                                 *)
(***************************************************************************)
EXTENDS Integers, Sequences, FiniteSets

\* Thousandths per unit: the resolution numbers are held at.
Scale == 1000

Undefined == [t |-> "undefined", n |-> 0, s |-> <<>>]
Null == [t |-> "null", n |-> 0, s |-> <<>>]
NaN == [t |-> "nan", n |-> 0, s |-> <<>>]
Num(n) == [t |-> "num", n |-> n, s |-> <<>>]
Str(s) == [t |-> "str", n |-> 0, s |-> s]

----------------------------------------------------------------------------
(* Characters and digit strings *)

DigitChars == <<"0", "1", "2", "3", "4", "5", "6", "7", "8", "9">>
LowerHex == <<"a", "b", "c", "d", "e", "f">>
UpperHex == <<"A", "B", "C", "D", "E", "F">>
WhiteSpace == {" ", "\t", "\n", "\r"}

\* The value of character c as a digit of the given radix, or -1.
DigitIn(c, radix) ==
    LET d == IF \E i \in 1..10 : DigitChars[i] = c
             THEN (CHOOSE i \in 1..10 : DigitChars[i] = c) - 1
             ELSE IF \E i \in 1..6 : LowerHex[i] = c
             THEN (CHOOSE i \in 1..6 : LowerHex[i] = c) + 9
             ELSE IF \E i \in 1..6 : UpperHex[i] = c
             THEN (CHOOSE i \in 1..6 : UpperHex[i] = c) + 9
             ELSE -1
    IN IF d < radix THEN d ELSE -1

RECURSIVE DigitsEnd(_, _, _)
\* The first index at or after i of s that holds no digit of the radix.
DigitsEnd(s, i, radix) ==
    IF i <= Len(s) /\ DigitIn(s[i], radix) >= 0
    THEN DigitsEnd(s, i + 1, radix)
    ELSE i

RECURSIVE DigitsValue(_, _, _, _)
\* The integer written by the digits s[i..j-1] in the radix (0 when empty).
DigitsValue(s, i, j, radix) ==
    IF j <= i THEN 0
    ELSE DigitsValue(s, i, j - 1, radix) * radix + DigitIn(s[j - 1], radix)

RECURSIVE Pow10(_)
Pow10(k) == IF k <= 0 THEN 1 ELSE 10 * Pow10(k - 1)

\* The fraction digits s[i..j-1] in thousandths; digits after the third are
\* below the resolution.
FracValue(s, i, j) ==
    LET k == IF j - i > 3 THEN 3 ELSE j - i
    IN DigitsValue(s, i, i + k, 10) * Pow10(3 - k)

RECURSIVE TrimLeft(_)
TrimLeft(s) == IF s # <<>> /\ Head(s) \in WhiteSpace THEN TrimLeft(Tail(s)) ELSE s

RECURSIVE TrimRight(_)
TrimRight(s) ==
    IF s # <<>> /\ s[Len(s)] \in WhiteSpace
    THEN TrimRight(SubSeq(s, 1, Len(s) - 1))
    ELSE s

RECURSIVE IntToStr(_)
\* The decimal digits of a natural number.
IntToStr(k) ==
    IF k < 10 THEN <<DigitChars[k + 1]>>
    ELSE IntToStr(k \div 10) \o <<DigitChars[(k % 10) + 1]>>

----------------------------------------------------------------------------
(* ECMAScript conversions used by the handlers *)

\* StrDecimalLiteral read at the start of s, in four steps (sign, integer
\* digits, fraction digits, exponent): [ok, end, n], end the index after the
\* longest literal, n its value in thousandths.  "Infinity" is not read.

\* The literal whose mantissa m ends before index m1, with its exponent part.
WithExponent(s, ok, m, m1, e1) ==
    IF m1 <= Len(s) /\ s[m1] \in {"e", "E"} /\ DigitsEnd(s, e1, 10) > e1
    THEN [ok |-> ok,
          end |-> DigitsEnd(s, e1, 10),
          n |-> IF s[e1 - 1] = "-"
                THEN m \div Pow10(DigitsValue(s, e1, DigitsEnd(s, e1, 10), 10))
                ELSE m * Pow10(DigitsValue(s, e1, DigitsEnd(s, e1, 10), 10))]
    ELSE [ok |-> ok, end |-> m1, n |-> m]

\* The mantissa m ending before m1, then an optional signed exponent.
Mantissa(s, ok, m, m1) ==
    WithExponent(s, ok, m, m1,
                 IF m1 + 1 <= Len(s) /\ s[m1 + 1] \in {"+", "-"} THEN m1 + 2 ELSE m1 + 1)

\* Integer digits s[i0..i1-1], then an optional "." and fraction digits.
WithFraction(s, i0, i1, f1) ==
    IF i1 <= Len(s) /\ s[i1] = "."
    THEN Mantissa(s, i1 > i0 \/ f1 > i1 + 1,
                  DigitsValue(s, i0, i1, 10) * Scale + FracValue(s, i1 + 1, f1), f1)
    ELSE Mantissa(s, i1 > i0, DigitsValue(s, i0, i1, 10) * Scale, i1)

Unsigned(s, i0, i1) == WithFraction(s, i0, i1, DigitsEnd(s, i1 + 1, 10))

Negated(p) == [p EXCEPT !.n = 0 - p.n]

DecimalPrefix(s) ==
    IF s # <<>> /\ s[1] = "-" THEN Negated(Unsigned(s, 2, DigitsEnd(s, 2, 10)))
    ELSE IF s # <<>> /\ s[1] = "+" THEN Unsigned(s, 2, DigitsEnd(s, 2, 10))
    ELSE Unsigned(s, 1, DigitsEnd(s, 1, 10))

\* 0x / 0o / 0b literal radix of s, or 0.
LiteralRadix(s) ==
    IF Len(s) >= 2 /\ s[1] = "0"
    THEN IF s[2] \in {"x", "X"} THEN 16
         ELSE IF s[2] \in {"o", "O"} THEN 8
         ELSE IF s[2] \in {"b", "B"} THEN 2
         ELSE 0
    ELSE 0

\* StringToNumber: the whole trimmed string must be one numeric literal.
StringToNumber(s) ==
    LET t == TrimRight(TrimLeft(s))
        r == LiteralRadix(t)
        p == DecimalPrefix(t)
    IN IF t = <<>> THEN Num(0)
       ELSE IF r # 0
       THEN IF Len(t) > 2 /\ DigitsEnd(t, 3, r) = Len(t) + 1
            THEN Num(DigitsValue(t, 3, Len(t) + 1, r) * Scale)
            ELSE NaN
       ELSE IF p.ok /\ p.end = Len(t) + 1 THEN Num(p.n)
       ELSE NaN

\* Number::toString for the magnitudes the model holds (no exponent form).
NumberToString(n) ==
    LET a == IF n < 0 THEN 0 - n ELSE n
        f == a % Scale
        f3 == <<DigitChars[(f \div 100) + 1], DigitChars[((f \div 10) % 10) + 1],
                DigitChars[(f % 10) + 1]>>
        fs == IF f % 100 = 0 THEN SubSeq(f3, 1, 1)
              ELSE IF f % 10 = 0 THEN SubSeq(f3, 1, 2)
              ELSE f3
    IN (IF n < 0 THEN <<"-">> ELSE <<>>)
       \o IntToStr(a \div Scale)
       \o (IF f = 0 THEN <<>> ELSE <<".">> \o fs)

ToNumber(v) ==
    CASE v.t = "undefined" -> NaN
      [] v.t = "null" -> Num(0)
      [] v.t = "str" -> StringToNumber(v.s)
      [] OTHER -> v

ToStr(v) ==
    CASE v.t = "undefined" -> <<"u", "n", "d", "e", "f", "i", "n", "e", "d">>
      [] v.t = "null" -> <<"n", "u", "l", "l">>
      [] v.t = "nan" -> <<"N", "a", "N">>
      [] v.t = "num" -> NumberToString(v.n)
      [] OTHER -> v.s

\* `!v`
Falsy(v) ==
    \/ v.t \in {"undefined", "null", "nan"}
    \/ v.t = "num" /\ v.n = 0
    \/ v.t = "str" /\ v.s = <<>>

\* isNaN(v)
isNaN(v) == ToNumber(v).t = "nan"

\* `v <= 0` and `v < 0`: false when v converts to NaN.
LeqZero(v) == ToNumber(v).t = "num" /\ ToNumber(v).n <= 0
LtZero(v) == ToNumber(v).t = "num" /\ ToNumber(v).n < 0

\* parseFloat(v): the longest decimal literal at the start of ToStr(v).
parseFloat(v) ==
    LET p == DecimalPrefix(TrimLeft(ToStr(v)))
    IN IF p.ok THEN Num(p.n) ELSE NaN

\* The digit run of u from i0 in the radix, as a number; NaN when it is empty.
DigitRun(u, i0, radix, negative) ==
    IF DigitsEnd(u, i0, radix) = i0 THEN NaN
    ELSE IF negative THEN Num(0 - DigitsValue(u, i0, DigitsEnd(u, i0, radix), radix) * Scale)
    ELSE Num(DigitsValue(u, i0, DigitsEnd(u, i0, radix), radix) * Scale)

UnsignedInt(u, negative) ==
    IF LiteralRadix(u) = 16 THEN DigitRun(u, 3, 16, negative)
    ELSE DigitRun(u, 1, 10, negative)

SignedInt(t) ==
    IF t # <<>> /\ t[1] \in {"+", "-"} THEN UnsignedInt(Tail(t), t[1] = "-")
    ELSE UnsignedInt(t, FALSE)

\* parseInt(v) with no radix: sign, optional 0x, then the longest digit run.
parseInt(v) == SignedInt(TrimLeft(ToStr(v)))

\* Number.prototype.toFixed(2): the nearest hundredth, a tie going to the
\* larger magnitude.  A double is within 1e-12 of the decimal held here, which
\* decides the rounding differently only at an exact decimal tie that is not
\* a multiple of 0.125; the input sets hold no such tie.
toFixed2(v) ==
    IF v.t # "num" THEN ToStr(v)
    ELSE LET a == IF v.n < 0 THEN 0 - v.n ELSE v.n
             c == (a \div 10) + (IF a % 10 >= 5 THEN 1 ELSE 0)
         IN (IF v.n < 0 THEN <<"-">> ELSE <<>>)
            \o IntToStr(c \div 100)
            \o <<".", DigitChars[((c \div 10) % 10) + 1], DigitChars[(c % 10) + 1]>>

\* `a - b` on numbers.
Minus(a, b) == IF a.t = "num" /\ b.t = "num" THEN Num(a.n - b.n) ELSE NaN

\* JSON.stringify then JSON.parse of one value: NaN is written as null.
JsonValue(v) == IF v.t = "nan" THEN Null ELSE v

----------------------------------------------------------------------------
(* The persisted Document and the requests *)

\* file      the Document held in data.json
\* pc        where the one request in flight is: "idle" (none), "handling"
\*           (received, its handler about to run), "responded"
\* req       the request in flight
\* resp      the response its handler sent
\* fsLog     the fs calls its handler made, in order, each with its outcome
\* issuedEmployeeIds, issuedPayrollIds
\*           history: the ids returned by 201 responses so far
\* deletedPayrollIds
\*           history: the ids of the payrolls that a saved deletion of their
\*           employee removed
\* pending   the requests that have arrived and whose handler the event loop
\*           has not called yet
VARIABLES file, pc, req, resp, fsLog, issuedEmployeeIds, issuedPayrollIds,
          deletedPayrollIds, pending

vars == <<file, pc, req, resp, fsLog, issuedEmployeeIds, issuedPayrollIds,
          deletedPayrollIds, pending>>

\* The largest id the model lets a handler assign before it stops creating.
MaxEmployeeId == 3
MaxPayrollId == 2
\* The most requests that wait for their handler at once (SpecRace).
MaxPending == 2

\* The same for the specifications of the input handling (SpecAuth, SpecWide).
InputMaxEmployeeId == 1
InputMaxPayrollId == 1

ADMIN_KEY == <<"admin123">>

EmptyDocument ==
    [employees |-> <<>>, payrolls |-> <<>>, nextEmployeeId |-> 1, nextPayrollId |-> 1]

\* readData: the parsed file, or the empty Document when the read or the
\* parse throws.
readData(readThrows) == IF readThrows THEN EmptyDocument ELSE file

\* JSON.stringify(data) as JSON.parse gives it back: created_at is not held,
\* and a NaN number is written as null.
JsonEmployee(e) == [e EXCEPT !.salary = JsonValue(e.salary)]

JsonPayroll(p) ==
    [p EXCEPT !.gross_pay = JsonValue(p.gross_pay),
              !.deductions = JsonValue(p.deductions),
              !.net_pay = JsonValue(p.net_pay)]

JsonDocument(data) ==
    [data EXCEPT !.employees = [i \in 1..Len(data.employees) |-> JsonEmployee(data.employees[i])],
                 !.payrolls = [i \in 1..Len(data.payrolls) |-> JsonPayroll(data.payrolls[i])]]

\* Variant: the file is replaced before writeFileSync throws.
writeDataPartial(data, writeThrows) == JsonDocument(data)

\* writeData: the file after the call; it is left as it was when
\* writeFileSync throws, and writeData then returns false.
writeData(data, writeThrows) == IF writeThrows THEN file ELSE JsonDocument(data)

\* authHeader.split(' ')[1]
BearerToken(authHeader) ==
    IF authHeader.t # "str" THEN Undefined
    ELSE LET h == authHeader.s
             sp == {i \in 1..Len(h) : h[i] = " "}
         IN IF sp = {} THEN Undefined
            ELSE LET i == CHOOSE k \in sp : \A m \in sp : k <= m
                     rest == {m \in sp : m > i}
                     j == IF rest = {} THEN Len(h) + 1
                          ELSE CHOOSE k \in rest : \A m \in rest : k <= m
                 IN Str(SubSeq(h, i + 1, j - 1))

\* authenticateAdmin calls next()
authenticateAdmin(authHeader) ==
    LET token == IF Falsy(authHeader) THEN authHeader ELSE BearerToken(authHeader)
    IN ~(Falsy(token) \/ token # Str(ADMIN_KEY))

\* calculatePayroll(grossPay, deductions).netPay
calculatePayroll(grossPay, deductions) == Minus(grossPay, deductions)

----------------------------------------------------------------------------
(* The route handlers.  Each is the whole callback run on the request in
   flight: authenticateAdmin, the validation, readData, the mutation,
   writeData and the response. *)

Reply(status, body) == [status |-> status, body |-> body]

NoRequest == [route |-> "none"]
NoResponse == Reply(0, [status |-> "none"])

Unauthorized == Reply(401, [error |-> "Unauthorized. Valid API key required."])

\* A handler that returns before it writes: only the response and the log change.
Answer(response, log) ==
    /\ pc' = "responded"
    /\ resp' = response
    /\ fsLog' = log
    /\ UNCHANGED <<file, req, issuedEmployeeIds, issuedPayrollIds, deletedPayrollIds, pending>>

ReadEvent(readThrows) == IF readThrows THEN "readData:empty" ELSE "readData:ok"
WriteEvent(writeThrows) == IF writeThrows THEN "writeData:false" ELSE "writeData:true"

\* The required-fields test of POST /api/employees.
EmployeeFieldMissing(b) ==
    \/ Falsy(b.employee_code) \/ Falsy(b.first_name) \/ Falsy(b.last_name)
    \/ Falsy(b.designation) \/ Falsy(b.department) \/ Falsy(b.email)
    \/ Falsy(b.bank_account) \/ Falsy(b.salary)

\* isNaN(salary) || salary <= 0
SalaryInvalid(b) == isNaN(b.salary) \/ LeqZero(b.salary)

\* Variant: only the first employee's code is compared.
existingEmployeeFirstOnly(data, employee_code) ==
    /\ data.employees # <<>>
    /\ data.employees[1].employee_code = employee_code

\* data.employees.find(emp => emp.employee_code === employee_code) is truthy
existingEmployee(data, employee_code) ==
    \E i \in 1..Len(data.employees) : data.employees[i].employee_code = employee_code

\* The new record; created_at is not held.
newEmployee(data, b) ==
    [id |-> data.nextEmployeeId,
     employee_code |-> b.employee_code,
     first_name |-> b.first_name,
     last_name |-> b.last_name,
     designation |-> b.designation,
     department |-> b.department,
     email |-> b.email,
     bank_account |-> b.bank_account,
     salary |-> parseFloat(b.salary)]

\* Variant: the employee is pushed and nextEmployeeId is left as it was.
pushEmployeeOnly(data, e) == [data EXCEPT !.employees = Append(@, e)]

\* data.employees.push(newEmployee); data.nextEmployeeId++
pushEmployee(data, e) ==
    [data EXCEPT !.employees = Append(@, e), !.nextEmployeeId = @ + 1]

\* app.post('/api/employees', authenticateAdmin, ...)
postEmployees ==
    /\ pc = "handling"
    /\ req.route = "POST /api/employees"
    /\ IF ~authenticateAdmin(req.authorization) THEN Answer(Unauthorized, <<>>)
       ELSE IF EmployeeFieldMissing(req.body)
       THEN Answer(Reply(400, [error |-> "All fields are required"]), <<>>)
       ELSE IF SalaryInvalid(req.body)
       THEN Answer(Reply(400, [error |-> "Salary must be a positive number"]), <<>>)
       ELSE \E readThrows \in BOOLEAN :
            IF existingEmployee(readData(readThrows), req.body.employee_code)
            THEN Answer(Reply(400, [error |-> "Employee code already exists"]),
                        <<ReadEvent(readThrows)>>)
            ELSE \E writeThrows \in BOOLEAN :
                 /\ pc' = "responded"
                 /\ file' = writeData(pushEmployee(readData(readThrows),
                                                   newEmployee(readData(readThrows), req.body)),
                                      writeThrows)
                 /\ fsLog' = <<ReadEvent(readThrows), WriteEvent(writeThrows)>>
                 /\ resp' = IF writeThrows
                            THEN Reply(500, [error |-> "Failed to save employee data"])
                            ELSE Reply(201, JsonEmployee(newEmployee(readData(readThrows), req.body)))
                 /\ issuedEmployeeIds' =
                        IF writeThrows THEN issuedEmployeeIds
                        ELSE issuedEmployeeIds \cup {readData(readThrows).nextEmployeeId}
                 /\ UNCHANGED <<req, issuedPayrollIds, deletedPayrollIds, pending>>

\* The required-fields test of POST /api/payrolls.
PayrollFieldMissing(b) ==
    \/ Falsy(b.employee_id) \/ Falsy(b.pay_period_start)
    \/ Falsy(b.pay_period_end) \/ Falsy(b.gross_pay)

\* The destructuring default `deductions = 0`.
deductionsOf(b) == IF b.deductions.t = "undefined" THEN Num(0) ELSE b.deductions

\* isNaN(gross_pay) || gross_pay <= 0
GrossPayInvalid(b) == isNaN(b.gross_pay) \/ LeqZero(b.gross_pay)

\* isNaN(deductions) || deductions < 0
DeductionsInvalid(b) == isNaN(deductionsOf(b)) \/ LtZero(deductionsOf(b))

\* Variant: every id below the counter is taken for the id of an employee.
employeeWithIdIssued(data, id) ==
    id.t = "num" /\ id.n >= Scale /\ id.n < data.nextEmployeeId * Scale

\* data.employees.find(emp => emp.id === id) is truthy, id a JavaScript number
employeeWithId(data, id) ==
    \E i \in 1..Len(data.employees) : Num(data.employees[i].id * Scale) = id

\* The new record; created_at is not held.
newPayroll(data, b) ==
    [id |-> data.nextPayrollId,
     employee_id |-> parseInt(b.employee_id).n \div Scale,
     pay_period_start |-> b.pay_period_start,
     pay_period_end |-> b.pay_period_end,
     gross_pay |-> parseFloat(b.gross_pay),
     deductions |-> parseFloat(deductionsOf(b)),
     net_pay |-> parseFloat(Str(toFixed2(
                     calculatePayroll(parseFloat(b.gross_pay), parseFloat(deductionsOf(b))))))]

\* data.payrolls.push(newPayroll); data.nextPayrollId++
pushPayroll(data, p) ==
    [data EXCEPT !.payrolls = Append(@, p), !.nextPayrollId = @ + 1]

\* app.post('/api/payrolls', authenticateAdmin, ...)
postPayrolls ==
    /\ pc = "handling"
    /\ req.route = "POST /api/payrolls"
    /\ IF ~authenticateAdmin(req.authorization) THEN Answer(Unauthorized, <<>>)
       ELSE IF PayrollFieldMissing(req.body)
       THEN Answer(Reply(400, [error |-> "employee_id, pay_period_start, pay_period_end, and gross_pay are required"]), <<>>)
       ELSE IF GrossPayInvalid(req.body)
       THEN Answer(Reply(400, [error |-> "Gross pay must be a positive number"]), <<>>)
       ELSE IF DeductionsInvalid(req.body)
       THEN Answer(Reply(400, [error |-> "Deductions must be a non-negative number"]), <<>>)
       ELSE \E readThrows \in BOOLEAN :
            IF ~employeeWithId(readData(readThrows), parseInt(req.body.employee_id))
            THEN Answer(Reply(404, [error |-> "Employee not found"]),
                        <<ReadEvent(readThrows)>>)
            ELSE \E writeThrows \in BOOLEAN :
                 /\ pc' = "responded"
                 /\ file' = writeData(pushPayroll(readData(readThrows),
                                                  newPayroll(readData(readThrows), req.body)),
                                      writeThrows)
                 /\ fsLog' = <<ReadEvent(readThrows), WriteEvent(writeThrows)>>
                 /\ resp' = IF writeThrows
                            THEN Reply(500, [error |-> "Failed to save payroll data"])
                            ELSE Reply(201, JsonPayroll(newPayroll(readData(readThrows), req.body)))
                 /\ issuedPayrollIds' =
                        IF writeThrows THEN issuedPayrollIds
                        ELSE issuedPayrollIds \cup {readData(readThrows).nextPayrollId}
                 /\ UNCHANGED <<req, issuedEmployeeIds, deletedPayrollIds, pending>>

\* s without its element at index k: Array.prototype.splice(k, 1).
splice(s, k) == SubSeq(s, 1, k - 1) \o SubSeq(s, k + 1, Len(s))

\* The indices of s whose element has the id (a JavaScript number), in order.
IndicesWithId(s, id) == {i \in 1..Len(s) : Num(s[i].id * Scale) = id}

\* The least index of a non-empty set of indices.
First(indices) == CHOOSE i \in indices : \A j \in indices : i <= j

\* data.employees.findIndex(emp => emp.id === employeeId), from 1; 0 for -1
findIndex(data, employeeId) ==
    IF IndicesWithId(data.employees, employeeId) = {} THEN 0
    ELSE First(IndicesWithId(data.employees, employeeId))

\* Variant: the payrolls are filtered on their own id, p.id !== employeeId.
filterPayrollsById(payrolls, employeeId) ==
    SelectSeq(payrolls, LAMBDA p : Num(p.id * Scale) # employeeId)

RECURSIVE filterPayrolls(_, _)
\* payrolls.filter(p => p.employee_id !== employeeId)
filterPayrolls(payrolls, employeeId) ==
    IF payrolls = <<>> THEN <<>>
    ELSE (IF Num(Head(payrolls).employee_id * Scale) # employeeId
          THEN <<Head(payrolls)>> ELSE <<>>)
         \o filterPayrolls(Tail(payrolls), employeeId)

\* The ids of the payrolls that payrolls.filter(p => p.employee_id !== employeeId) drops.
payrollIdsOf(data, employeeId) ==
    {data.payrolls[i].id :
        i \in {k \in 1..Len(data.payrolls) :
                  Num(data.payrolls[k].employee_id * Scale) = employeeId}}

\* Variant: the employee is removed and the payrolls are left alone.
removeEmployeeOnly(data, employeeIndex, employeeId) ==
    [data EXCEPT !.employees = splice(@, employeeIndex)]

\* The employee at employeeIndex spliced out, and its payroll entries filtered out.
removeEmployee(data, employeeIndex, employeeId) ==
    [data EXCEPT !.employees = splice(@, employeeIndex),
                 !.payrolls = filterPayrolls(@, employeeId)]

\* app.delete('/api/employees/:id', authenticateAdmin, ...)
deleteEmployee ==
    /\ pc = "handling"
    /\ req.route = "DELETE /api/employees/:id"
    /\ IF ~authenticateAdmin(req.authorization) THEN Answer(Unauthorized, <<>>)
       ELSE \E readThrows \in BOOLEAN :
            IF findIndex(readData(readThrows), parseInt(req.id)) = 0
            THEN Answer(Reply(404, [error |-> "Employee not found"]),
                        <<ReadEvent(readThrows)>>)
            ELSE \E writeThrows \in BOOLEAN :
                 /\ pc' = "responded"
                 /\ file' = writeData(removeEmployee(readData(readThrows),
                                                     findIndex(readData(readThrows), parseInt(req.id)),
                                                     parseInt(req.id)),
                                      writeThrows)
                 /\ fsLog' = <<ReadEvent(readThrows), WriteEvent(writeThrows)>>
                 /\ resp' = IF writeThrows
                            THEN Reply(500, [error |-> "Failed to delete employee data"])
                            ELSE Reply(200, [message |-> "Employee and associated payroll entries deleted successfully"])
                 /\ deletedPayrollIds' =
                        IF writeThrows THEN deletedPayrollIds
                        ELSE deletedPayrollIds
                             \cup payrollIdsOf(readData(readThrows), parseInt(req.id))
                 /\ UNCHANGED <<req, issuedEmployeeIds, issuedPayrollIds, pending>>

\* app.get('/api/health'): the timestamp is not held.
getHealth ==
    /\ pc = "handling"
    /\ req.route = "GET /api/health"
    /\ Answer(Reply(200, [status |-> "OK"]), <<>>)

\* app.get('/api/employees')
getEmployees ==
    /\ pc = "handling"
    /\ req.route = "GET /api/employees"
    /\ \E readThrows \in BOOLEAN :
           Answer(Reply(200, [array |-> readData(readThrows).employees]),
                  <<ReadEvent(readThrows)>>)

\* app.get('/api/payrolls')
getPayrolls ==
    /\ pc = "handling"
    /\ req.route = "GET /api/payrolls"
    /\ \E readThrows \in BOOLEAN :
           Answer(Reply(200, [array |-> readData(readThrows).payrolls]),
                  <<ReadEvent(readThrows)>>)

\* The employee fields a payslip shows.
payslipEmployee(e) ==
    [id |-> e.id, employee_code |-> e.employee_code, first_name |-> e.first_name,
     last_name |-> e.last_name, designation |-> e.designation,
     department |-> e.department, email |-> e.email, bank_account |-> e.bank_account]

\* The response of the payslip route for the payroll found at index k.
payslipOf(data, k) ==
    IF IndicesWithId(data.employees, Num(data.payrolls[k].employee_id * Scale)) = {}
    THEN Reply(404, [error |-> "Employee not found for this payroll entry"])
    ELSE Reply(200, [payroll |-> data.payrolls[k],
                     employee |-> payslipEmployee(data.employees[
                         First(IndicesWithId(data.employees,
                                             Num(data.payrolls[k].employee_id * Scale)))])])

\* app.get('/api/payslip/:payroll_id')
getPayslip ==
    /\ pc = "handling"
    /\ req.route = "GET /api/payslip/:payroll_id"
    /\ \E readThrows \in BOOLEAN :
           IF IndicesWithId(readData(readThrows).payrolls, parseInt(req.payroll_id)) = {}
           THEN Answer(Reply(404, [error |-> "Payroll entry not found"]),
                       <<ReadEvent(readThrows)>>)
           ELSE Answer(payslipOf(readData(readThrows),
                                 First(IndicesWithId(readData(readThrows).payrolls,
                                                     parseInt(req.payroll_id)))),
                       <<ReadEvent(readThrows)>>)

\* The response has gone out: the next request can come in.
finish ==
    /\ pc = "responded"
    /\ pc' = "idle"
    /\ req' = NoRequest
    /\ resp' = NoResponse
    /\ fsLog' = <<>>
    /\ UNCHANGED <<file, issuedEmployeeIds, issuedPayrollIds, deletedPayrollIds, pending>>

\* Any handler, on the request in flight.
Handle ==
    \/ postEmployees
    \/ postPayrolls
    \/ deleteEmployee
    \/ getHealth
    \/ getEmployees
    \/ getPayrolls
    \/ getPayslip

----------------------------------------------------------------------------
(* Request inputs *)

\* A request comes in while none is in flight.
Receive(r) ==
    /\ pc = "idle"
    /\ pc' = "handling"
    /\ req' = r
    /\ UNCHANGED <<file, resp, fsLog, issuedEmployeeIds, issuedPayrollIds, deletedPayrollIds, pending>>

PostEmployee(authorization, body) ==
    [route |-> "POST /api/employees", authorization |-> authorization, body |-> body]
PostPayroll(authorization, body) ==
    [route |-> "POST /api/payrolls", authorization |-> authorization, body |-> body]
Delete(authorization, id) ==
    [route |-> "DELETE /api/employees/:id", authorization |-> authorization, id |-> id]
Payslip(payroll_id) == [route |-> "GET /api/payslip/:payroll_id", payroll_id |-> payroll_id]
Reads == {[route |-> "GET /api/health"], [route |-> "GET /api/employees"],
          [route |-> "GET /api/payrolls"]}

Bearer(token) == Str(<<"Bearer", " ">> \o token)
WrongKey == <<"admin124">>
Basic(token) == Str(<<"Basic", " ">> \o token)

E1 == Str(<<"E1">>)
E2 == Str(<<"E2">>)
Ann == Str(<<"Ann">>)
Lee == Str(<<"Lee">>)
Eng == Str(<<"Eng">>)
RnD == Str(<<"R&D">>)
Mail == Str(<<"a@x.com">>)
Account == Str(<<"1", "2", "3">>)
Jan01 == Str(<<"2024-01-01">>)
Jan31 == Str(<<"2024-01-31">>)

\* The body of the scenario's employee, with the given code, first name and salary.
EmployeeBody(code, first, salary) ==
    [employee_code |-> code, first_name |-> first, last_name |-> Lee,
     designation |-> Eng, department |-> RnD, email |-> Mail,
     bank_account |-> Account, salary |-> salary]

PayrollBody(employee_id, gross_pay, deductions) ==
    [employee_id |-> employee_id, pay_period_start |-> Jan01, pay_period_end |-> Jan31,
     gross_pay |-> gross_pay, deductions |-> deductions]

\* The decimal string of id i, as a path parameter carries it.
IdParam(i) == Str(IntToStr(i))

\* Spec draws requests that differ in what the handlers branch on; every
\* accepted number is stored as the same value, so that the Document varies in
\* its structure only.  SpecAuth draws the Authorization header widely and
\* SpecWide the numeric inputs.
EmployeeBodies ==
    {EmployeeBody(c, Ann, s) : c \in {E1, E2}, s \in {Undefined, Num(0), Num(5000 * Scale)}}
    \cup {EmployeeBody(Undefined, Ann, Num(5000 * Scale)),
          EmployeeBody(E1, Undefined, Num(5000 * Scale))}

PayrollBodies ==
    {PayrollBody(i, Num(1000 * Scale), Undefined) :
        i \in {Undefined} \cup {Num(k * Scale) : k \in 1..(MaxEmployeeId + 1)}}
    \cup {PayrollBody(Num(k * Scale), g, d) :
              k \in {1, MaxEmployeeId + 1},
              g \in {Undefined, Num(1000 * Scale)},
              d \in {Undefined, Num((0 - 1) * Scale)}}

\* The requests with the key, and one request without it on each route.
EmployeeRequests ==
    {PostEmployee(Bearer(ADMIN_KEY), b) : b \in EmployeeBodies}
    \cup {PostEmployee(Undefined, EmployeeBody(E1, Ann, Num(5000 * Scale)))}

PayrollRequests ==
    {PostPayroll(Bearer(ADMIN_KEY), b) : b \in PayrollBodies}
    \cup {PostPayroll(Undefined, PayrollBody(Num(1 * Scale), Num(1000 * Scale), Undefined))}

DeleteRequests ==
    {Delete(Bearer(ADMIN_KEY), IdParam(i)) : i \in 1..(MaxEmployeeId + 1)}
    \cup {Delete(Undefined, IdParam(1))}

----------------------------------------------------------------------------
(* The specification: requests come in one at a time (every handler is
   synchronous, so handlers do not interleave), any request at any time,
   the file system free to fail. *)

Init ==
    /\ file = EmptyDocument
    /\ pc = "idle"
    /\ req = NoRequest
    /\ resp = NoResponse
    /\ fsLog = <<>>
    /\ issuedEmployeeIds = {}
    /\ issuedPayrollIds = {}
    /\ deletedPayrollIds = {}
    /\ pending = {}

ReceivePostEmployees ==
    /\ file.nextEmployeeId <= MaxEmployeeId
    /\ \E r \in EmployeeRequests : Receive(r)

ReceivePostPayrolls ==
    /\ file.nextPayrollId <= MaxPayrollId
    /\ \E r \in PayrollRequests : Receive(r)

ReceiveDelete == \E r \in DeleteRequests : Receive(r)

ReceiveRead ==
    \/ \E r \in Reads : Receive(r)
    \/ \E i \in 1..(MaxPayrollId + 1) : Receive(Payslip(IdParam(i)))

Next ==
    \/ ReceivePostEmployees
    \/ ReceivePostPayrolls
    \/ ReceiveDelete
    \/ ReceiveRead
    \/ Handle
    \/ finish

Spec == Init /\ [][Next]_vars

----------------------------------------------------------------------------
(* The specification of the authentication gate: every route, under
   Authorization headers drawn widely, on a Document of at most one employee
   and one payroll at a time. *)

Empty == Str(<<>>)

AuthHeaders ==
    {Undefined, Empty, Str(ADMIN_KEY), Bearer(ADMIN_KEY), Bearer(WrongKey), Basic(ADMIN_KEY),
     Str(<<"Bearer", " ", " ">> \o ADMIN_KEY), Str(<<"Bearer", " ">> \o ADMIN_KEY \o <<" ", "x">>),
     Str(<<"Bearer", " ">>)}

AuthEmployeeBodies == {EmployeeBody(E1, f, Num(5000 * Scale)) : f \in {Undefined, Ann}}

AuthPayrollBodies == {PayrollBody(Num(1 * Scale), g, Undefined) : g \in {Undefined, Num(1000 * Scale)}}

AuthReceivePostEmployees ==
    /\ file.nextEmployeeId <= InputMaxEmployeeId
    /\ \E a \in AuthHeaders, b \in AuthEmployeeBodies : Receive(PostEmployee(a, b))

AuthReceivePostPayrolls ==
    /\ file.nextPayrollId <= InputMaxPayrollId
    /\ \E a \in AuthHeaders, b \in AuthPayrollBodies : Receive(PostPayroll(a, b))

AuthReceiveDelete == \E a \in AuthHeaders : Receive(Delete(a, IdParam(1)))

AuthReceiveRead ==
    \/ \E r \in Reads : Receive(r)
    \/ Receive(Payslip(IdParam(1)))

NextAuth ==
    \/ AuthReceivePostEmployees
    \/ AuthReceivePostPayrolls
    \/ AuthReceiveDelete
    \/ AuthReceiveRead
    \/ Handle
    \/ finish

SpecAuth == Init /\ [][NextAuth]_vars

----------------------------------------------------------------------------
(* The specification of the input handling: authenticated requests whose
   fields are drawn widely (numbers, numeric strings, malformed strings,
   empty and absent fields), on a Document of at most one employee and one
   payroll at a time. *)

TextFields ==
    {"employee_code", "first_name", "last_name", "designation", "department",
     "email", "bank_account"}

WideSalaries ==
    {Undefined, Empty, Num(0), Num((0 - 5) * Scale), Num(5000 * Scale), Num(1500),
     Str(<<"5", "0", "0", "0">>), Str(<<" ", "7", " ">>), Str(<<"1", "e", "3">>),
     Str(<<"a", "b", "c">>), Str(<<"1", "2", "a", "b", "c">>), Str(<<"0">>),
     Str(<<"0", "x", "1", "0">>)}

WideEmployeeBodies ==
    {EmployeeBody(c, Ann, s) : c \in {E1, E2}, s \in WideSalaries}
    \cup {[EmployeeBody(E1, Ann, Num(5000 * Scale)) EXCEPT ![f] = v] :
              f \in TextFields, v \in {Undefined, Empty}}

WideEmployeeIds ==
    {Undefined, Num(0), Num(1 * Scale), Num(2 * Scale), Str(<<"1">>), Str(<<"1", "a">>),
     Str(<<"x">>)}

WideGrossPays ==
    {Undefined, Num(0), Num(1000 * Scale), Num(5000 * Scale), Num(1000004), Num(125),
     Str(<<"1", "0", "0", "0">>), Str(<<"a", "b", "c">>), Str(<<"0", "x", "1", "0">>)}

WideDeductions ==
    {Undefined, Empty, Num(0), Num(150 * Scale), Num(500 * Scale), Num(2000 * Scale),
     Num((0 - 1) * Scale), Num(4), Str(<<"1", "5", "0">>), Str(<<"a", "b", "c">>)}

WidePayrollBodies ==
    {PayrollBody(i, Num(1000 * Scale), Undefined) : i \in WideEmployeeIds}
    \cup {PayrollBody(Num(1 * Scale), g, d) : g \in WideGrossPays, d \in WideDeductions}
    \cup {[PayrollBody(Num(1 * Scale), Num(1000 * Scale), Undefined) EXCEPT ![f] = v] :
              f \in {"pay_period_start", "pay_period_end"}, v \in {Undefined, Empty}}

WideIdParams == {Str(<<"1">>), Str(<<"2">>), Str(<<"1", "a">>), Str(<<"x">>)}

WideReceivePostEmployees ==
    /\ file.nextEmployeeId <= InputMaxEmployeeId
    /\ \E b \in WideEmployeeBodies : Receive(PostEmployee(Bearer(ADMIN_KEY), b))

WideReceivePostPayrolls ==
    /\ file.nextPayrollId <= InputMaxPayrollId
    /\ \E b \in WidePayrollBodies : Receive(PostPayroll(Bearer(ADMIN_KEY), b))

WideReceiveDelete == \E i \in WideIdParams : Receive(Delete(Bearer(ADMIN_KEY), i))

WideReceiveRead ==
    \/ \E r \in Reads : Receive(r)
    \/ \E i \in WideIdParams : Receive(Payslip(i))

NextWide ==
    \/ WideReceivePostEmployees
    \/ WideReceivePostPayrolls
    \/ WideReceiveDelete
    \/ WideReceiveRead
    \/ Handle
    \/ finish

SpecWide == Init /\ [][NextWide]_vars

----------------------------------------------------------------------------
(* The specification of near-simultaneous requests.  Requests arrive at any
   time, also while a handler runs, and wait in the event loop; the event
   loop calls the handler of one of them when the handler before it has
   returned.  Every handler is one synchronous callback (readFileSync,
   writeFileSync, no await and no callback of its own), so it runs from its
   first line to its response without any other handler running in between. *)

Bob == Str(<<"Bob">>)

\* The mutating requests wait; a read is taken when no handler runs.
RaceRequests ==
    {PostEmployee(Bearer(ADMIN_KEY), EmployeeBody(E1, Ann, Num(5000 * Scale))),
     PostEmployee(Bearer(ADMIN_KEY), EmployeeBody(E1, Bob, Num(5000 * Scale))),
     PostEmployee(Bearer(ADMIN_KEY), EmployeeBody(E2, Ann, Num(5000 * Scale))),
     PostPayroll(Bearer(ADMIN_KEY), PayrollBody(Num(1 * Scale), Num(1000 * Scale), Undefined)),
     Delete(Bearer(ADMIN_KEY), IdParam(1))}

\* The creations on the route that wait or run.
Creating(route) ==
    Cardinality({r \in pending : r.route = route})
    + (IF pc = "handling" /\ req.route = route THEN 1 ELSE 0)

\* A request arrives, whatever the server is doing.
Arrive ==
    \E r \in RaceRequests \ pending :
       /\ Cardinality(pending) < MaxPending
       /\ r.route = "POST /api/employees"
             => file.nextEmployeeId + Creating(r.route) <= MaxEmployeeId
       /\ r.route = "POST /api/payrolls"
             => file.nextPayrollId + Creating(r.route) <= MaxPayrollId
       /\ pending' = pending \cup {r}
       /\ UNCHANGED <<file, pc, req, resp, fsLog, issuedEmployeeIds, issuedPayrollIds,
                      deletedPayrollIds>>

\* The event loop calls the handler of a waiting request.
Dispatch ==
    \E r \in pending :
       /\ pc = "idle"
       /\ pc' = "handling"
       /\ req' = r
       /\ pending' = pending \ {r}
       /\ UNCHANGED <<file, resp, fsLog, issuedEmployeeIds, issuedPayrollIds,
                      deletedPayrollIds>>

NextRace ==
    \/ Arrive
    \/ Dispatch
    \/ AuthReceiveRead
    \/ Handle
    \/ finish

SpecRace == Init /\ [][NextRace]_vars

----------------------------------------------------------------------------
(* What the properties below speak of. *)

MutatingRoutes == {"POST /api/employees", "POST /api/payrolls", "DELETE /api/employees/:id"}

Handling(route) == pc = "handling" /\ req.route = route

Handled(route) == pc = "responded" /\ req.route = route

\* The handler that takes this step loaded the Document and saved it.
Saved == Len(fsLog') = 2 /\ fsLog'[2] = "writeData:true"

SaveFailed == Len(fsLog') = 2 /\ fsLog'[2] = "writeData:false"

HasEmployee(doc, x) == \E i \in 1..Len(doc.employees) : doc.employees[i].id = x

HasPayroll(doc, x) == \E i \in 1..Len(doc.payrolls) : doc.payrolls[i].id = x

EmployeesWithout(doc, x) == SelectSeq(doc.employees, LAMBDA e : e.id # x)

PayrollsWithout(doc, x) == SelectSeq(doc.payrolls, LAMBDA p : p.employee_id # x)

----------------------------------------------------------------------------
\* C1: in every persisted Document no two records of employees have the same
\* employee_code.
C1_EmployeeCodesUnique ==
    \A i, j \in 1..Len(file.employees) :
        i # j => file.employees[i].employee_code # file.employees[j].employee_code

\* A creation with a code already held was refused while two employees are held.
C1_Witness ==
    /\ Handled("POST /api/employees")
    /\ resp = Reply(400, [error |-> "Employee code already exists"])
    /\ Len(file.employees) >= 2

\* C2: when the employee with id X exists, the request is authenticated and the
\* save succeeds, deleteEmployee(X) answers 200 and leaves a Document where
\* exactly that employee is gone, every payroll with employee_id = X is gone,
\* the other employees and payrolls remain in their order, and both counters
\* are unchanged.
C2_DeleteCascades ==
    [][\A x \in 1..(MaxEmployeeId + 1) :
          (/\ Handling("DELETE /api/employees/:id")
           /\ req.id = IdParam(x)
           /\ HasEmployee(file, x)
           /\ Saved)
          => /\ resp'.status = 200
             /\ file'.employees = EmployeesWithout(file, x)
             /\ Len(file'.employees) = Len(file.employees) - 1
             /\ file'.payrolls = PayrollsWithout(file, x)
             /\ file'.nextEmployeeId = file.nextEmployeeId
             /\ file'.nextPayrollId = file.nextPayrollId]_vars

\* A deletion was saved that left an employee and a payroll behind and took a
\* payroll with it.
C2_Witness ==
    /\ Handled("DELETE /api/employees/:id")
    /\ resp.status = 200
    /\ fsLog = <<"readData:ok", "writeData:true">>
    /\ file.employees # <<>>
    /\ file.payrolls # <<>>
    /\ \E x \in 1..MaxEmployeeId :
          /\ req.id = IdParam(x)
          /\ x \in issuedEmployeeIds
          /\ \E y \in issuedPayrollIds : ~HasPayroll(file, y)

\* C3: for every valid, authenticated employee creation whose save succeeds,
\* the id of the returned and stored employee is the value of nextEmployeeId
\* before the call, nextEmployeeId afterwards is that value plus 1, the new
\* employee is appended at the end of employees, and payrolls and
\* nextPayrollId are unchanged.
C3_CreateEmployeeTakesCounter ==
    [][(Handling("POST /api/employees") /\ Saved)
          => /\ resp'.status = 201
             /\ resp'.body.id = file.nextEmployeeId
             /\ file'.nextEmployeeId = file.nextEmployeeId + 1
             /\ file'.employees = Append(file.employees, resp'.body)
             /\ file'.payrolls = file.payrolls
             /\ file'.nextPayrollId = file.nextPayrollId]_vars

\* C4: nextEmployeeId and nextPayrollId never decrease, and an id once assigned
\* to an employee (resp. payroll) is never assigned to a later-created
\* employee (resp. payroll), even after the earlier record has been deleted.
C4_IdsNeverReused ==
    [][/\ file'.nextEmployeeId >= file.nextEmployeeId
       /\ file'.nextPayrollId >= file.nextPayrollId
       /\ (Handling("POST /api/employees") /\ resp'.status = 201)
             => resp'.body.id \notin issuedEmployeeIds
       /\ (Handling("POST /api/payrolls") /\ resp'.status = 201)
             => resp'.body.id \notin issuedPayrollIds]_vars

\* C5: an authenticated creation with every required field and a positive
\* salary, whose employee_code is the employee_code of an employee already in
\* the Document, fails with the conflict error and leaves employees, payrolls
\* and both counters unchanged.
C5_DuplicateCodeRefused ==
    [][(/\ Handling("POST /api/employees")
        /\ authenticateAdmin(req.authorization)
        /\ ~EmployeeFieldMissing(req.body)
        /\ ~SalaryInvalid(req.body)
        /\ \E i \in 1..Len(file.employees) :
              file.employees[i].employee_code = req.body.employee_code)
          => /\ resp'.status \in 400..499
             /\ resp'.body = [error |-> "Employee code already exists"]
             /\ file' = file]_vars

\* C6: a payroll creation whose employee_id matches no employee in the Document
\* changes neither payrolls nor nextPayrollId nor employees nor nextEmployeeId,
\* and, when it is authenticated and its fields pass the validation, it is
\* answered 404 'Employee not found'.
C6_UnknownEmployeeNotFound ==
    [][(/\ Handling("POST /api/payrolls")
        /\ ~\E x \in 1..(MaxEmployeeId + 1) :
              req.body.employee_id = Num(x * Scale) /\ HasEmployee(file, x))
          => /\ file' = file
             /\ (/\ authenticateAdmin(req.authorization)
                 /\ ~PayrollFieldMissing(req.body)
                 /\ ~GrossPayInvalid(req.body)
                 /\ ~DeductionsInvalid(req.body))
                   => resp' = Reply(404, [error |-> "Employee not found"])]_vars

\* A payroll for an employee that was deleted is answered 404 while other
\* employees are held.
C6_Witness ==
    /\ Handled("POST /api/payrolls")
    /\ resp.status = 404
    /\ fsLog = <<"readData:ok">>
    /\ file.employees # <<>>
    /\ \E x \in issuedEmployeeIds : req.body.employee_id = Num(x * Scale)

\* The header is the Bearer scheme followed by the configured secret.
CarriesBearerSecret(authHeader) ==
    /\ authHeader.t = "str"
    /\ Len(authHeader.s) >= 3
    /\ authHeader.s[1] = "Bearer"
    /\ authHeader.s[2] = " "
    /\ <<authHeader.s[3]>> = ADMIN_KEY

\* C7: on the mutating routes a request whose Authorization header is absent
\* or does not carry the configured secret as its bearer token is answered 401
\* before any validation or load, and the persisted Document is unchanged; the
\* read routes are served without a token.
C7_BearerSecretRequired ==
    [][/\ (/\ pc = "handling"
           /\ req.route \in MutatingRoutes
           /\ ~CarriesBearerSecret(req.authorization))
             => resp' = Unauthorized /\ fsLog' = <<>> /\ file' = file
       /\ (pc = "handling" /\ req.route \notin MutatingRoutes)
             => resp'.status # 401 /\ file' = file]_vars

\* The Document that the handler taking this step worked on.
Loaded == IF fsLog'[1] = "readData:empty" THEN EmptyDocument ELSE file

IsNumber(v) == v.t = "num"

\* C9: every employee stored in the Document has a salary that is a number
\* > 0, and every stored payroll has gross_pay a number > 0 and deductions a
\* number >= 0, which is 0 when the request omitted it.
C9_StoredNumbersValid ==
    /\ \A i \in 1..Len(file.employees) :
          IsNumber(file.employees[i].salary) /\ file.employees[i].salary.n > 0
    /\ \A i \in 1..Len(file.payrolls) :
          /\ IsNumber(file.payrolls[i].gross_pay) /\ file.payrolls[i].gross_pay.n > 0
          /\ IsNumber(file.payrolls[i].deductions) /\ file.payrolls[i].deductions.n >= 0
    /\ (Handled("POST /api/payrolls") /\ resp.status = 201 /\ req.body.deductions = Undefined)
          => resp.body.deductions = Num(0)

\* n thousandths to the nearest hundredth, in thousandths; ties away from zero.
Round2(n) == IF n >= 0 THEN ((n + 5) \div 10) * 10 ELSE 0 - (((0 - n) + 5) \div 10) * 10

\* C10: every stored payroll has net_pay equal to its stored gross_pay minus
\* its stored deductions, rounded to 2 decimal places: gross 1000 and
\* deductions 150 give 850, gross 1000 alone gives 1000, gross 5000 and
\* deductions 500 give 4500.
C10_NetPayIsGrossMinusDeductions ==
    /\ \A i \in 1..Len(file.payrolls) :
          /\ IsNumber(file.payrolls[i].gross_pay)
          /\ IsNumber(file.payrolls[i].deductions)
          /\ IsNumber(file.payrolls[i].net_pay)
          /\ file.payrolls[i].net_pay.n =
                Round2(file.payrolls[i].gross_pay.n - file.payrolls[i].deductions.n)
    /\ (Handled("POST /api/payrolls") /\ resp.status = 201)
          => /\ (req.body.gross_pay = Num(1000 * Scale) /\ req.body.deductions = Num(150 * Scale))
                   => resp.body.net_pay = Num(850 * Scale)
             /\ (req.body.gross_pay = Num(1000 * Scale) /\ req.body.deductions = Undefined)
                   => resp.body.net_pay = Num(1000 * Scale)
             /\ (req.body.gross_pay = Num(5000 * Scale) /\ req.body.deductions = Num(500 * Scale))
                   => resp.body.net_pay = Num(4500 * Scale)

\* C11: after an employee has been deleted, fetching the payslip of any payroll
\* that was created for that employee is answered 404 and returns no payslip.
C11_PayslipOfDeletedEmployeeNotFound ==
    [][(/\ Handling("GET /api/payslip/:payroll_id")
        /\ \E y \in deletedPayrollIds : req.payroll_id = IdParam(y))
          => /\ resp'.status = 404
             /\ "payroll" \notin DOMAIN resp'.body]_vars

\* No two employees of the Document share an employee_code or an id.
NoSharedCodeOrId(doc) ==
    \A i, j \in 1..Len(doc.employees) :
        i # j => /\ doc.employees[i].employee_code # doc.employees[j].employee_code
                 /\ doc.employees[i].id # doc.employees[j].id

C13_ReferentialIntegrity ==
    /\ \A i \in 1..Len(file.payrolls) :
          Cardinality({k \in 1..Len(file.employees) :
                         file.employees[k].id = file.payrolls[i].employee_id}) = 1
    /\ ~(/\ Handled("GET /api/payslip/:payroll_id")
         /\ resp.body = [error |-> "Employee not found for this payroll entry"])

\* A payslip is served from a Document that holds two employees, after a
\* deletion took an employee and its payrolls.
C13_Witness ==
    /\ Handled("GET /api/payslip/:payroll_id")
    /\ resp.status = 200
    /\ deletedPayrollIds # {}
    /\ Len(file.employees) >= 2
    /\ file.payrolls # <<>>

====
